---------------------------- MODULE Spec2Model ----------------------------
(***************************************************************************)
(* A model of the HttpService class of src/http-service.js (the class the  *)
(* module finally exports, lines 374-506, with its private helpers, lines  *)
(* 294-368): one request/response pipeline per call of request().          *)
(*                                                                         *)
(* JavaScript values are tagged records [t |-> <type>, v |-> <value>].     *)
(* Body text is a TLA+ string; a Buffer is a sequence of byte runs (each   *)
(* run a number naming a fixed run of bytes, decoded by Utf8); a media     *)
(* type is a sequence of string tokens, so that indexOf, substring,        *)
(* startsWith and endsWith are computed and not looked up.                 *)
(***************************************************************************)
EXTENDS Integers, Sequences, FiniteSets, TLC

\* Bounds of the model.
MaxCalls == 2
MaxChunks == 2

----------------------------------------------------------------------------
\* JavaScript values

Null == [t |-> "null"]
Undefined == [t |-> "undefined"]
Str(s) == [t |-> "string", v |-> s]
Buf(b) == [t |-> "buffer", v |-> b]
Obj(o) == [t |-> "object", v |-> o]
Num(n) == [t |-> "number", v |-> n]
Fn(name) == [t |-> "function", v |-> name]
NaN == [t |-> "NaN"]

\* JavaScript truthiness of a value (if (x) ...).
Truthy(x) ==
    CASE x.t \in {"null", "undefined", "NaN"} -> FALSE
      [] x.t = "string" -> x.v # ""
      [] x.t = "tokens" -> x.v # <<>>
      [] x.t = "number" -> x.v # 0
      [] OTHER -> TRUE

\* obj[key] of a parsed object: undefined when the key is absent.
Prop(x, key) == IF x.t = "object" /\ key \in DOMAIN x.v THEN x.v[key] ELSE Undefined

----------------------------------------------------------------------------
\* Constants of the module

JSON_MEDIA_TYPE == <<"application/", "json">>
FORM_MEDIA_TYPE == <<"application/", "x-www-form-urlencoded">>
CONTENT_TYPE_HEADER == "content-type"
CONTENT_LENGTH_HEADER == "content-length"

----------------------------------------------------------------------------
\* Platform functions, by their results on the strings the model uses

\* String.prototype.toLowerCase on header names.
ToLowerCase(s) ==
    CASE s = "Content-Type" -> "content-type"
      [] s = "CONTENT-TYPE" -> "content-type"
      [] s = "Content-Length" -> "content-length"
      [] s = "Accept" -> "accept"
      [] OTHER -> s

\* String.prototype.toUpperCase on method names.
ToUpperCase(s) ==
    CASE s = "get" -> "GET"
      [] s = "head" -> "HEAD"
      [] s = "post" -> "POST"
      [] OTHER -> s

\* The byte runs a response body is made of, and their UTF-8 decoding.
\* Run 7 is the single byte 0xFF, which is no UTF-8 and decodes to U+FFFD.
ByteRuns == 1..7
Utf8(run) ==
    CASE run = 1 -> "{\"error\":{\"message\":"
      [] run = 2 -> "\"bad token\"}}"
      [] run = 3 -> "{\"error_description\":\"bad grant\\r\\ntrace 1\",\"error\":{\"message\":\"bad token\"}}"
      [] run = 4 -> "{\"odata.error\":{\"message\":{\"value\":\"odata msg\"}}}"
      [] run = 5 -> "{\"a\":1}"
      [] run = 6 -> "hello"
      [] run = 7 -> "<U+FFFD>"

RECURSIVE BufferToString(_)
\* Buffer.prototype.toString(): the UTF-8 decoding of the bytes, in order.
BufferToString(b) == IF b = <<>> THEN "" ELSE Utf8(Head(b)) \o BufferToString(Tail(b))

RECURSIVE BufferConcat(_)
\* Buffer.concat(list): the buffers of the list joined in list order.
BufferConcat(list) == IF list = <<>> THEN <<>> ELSE Head(list) \o BufferConcat(Tail(list))

\* The JSON texts the model knows to be well formed, and their values.
JsonTexts ==
    { Utf8(1) \o Utf8(2), Utf8(3), Utf8(4), Utf8(5) }
JsonValue(text) ==
    CASE text = Utf8(1) \o Utf8(2) ->
             Obj([error |-> Obj([message |-> Str("bad token")])])
      [] text = Utf8(3) ->
             Obj([error_description |-> Str("bad grant\r\ntrace 1"),
                  error |-> Obj([message |-> Str("bad token")])])
      [] text = Utf8(4) ->
             Obj("odata.error" :> Obj([message |-> Obj([value |-> Str("odata msg")])]))
      [] text = Utf8(5) -> Obj([a |-> Num(1)])

\* The message of the SyntaxError JSON.parse throws on a text that is no JSON.
JsonSyntaxMessage(text) ==
    IF text = "" THEN "Unexpected end of JSON input" ELSE "Unexpected token in JSON"

\* A thrown exception or a returned value.
Throw(name, message) == [throw |-> TRUE, name |-> name, message |-> message]
Return(value) == [throw |-> FALSE, value |-> value]

\* JSON.parse(text).
JSONparse(text) ==
    IF text \in JsonTexts THEN Return(JsonValue(text))
    ELSE Throw("SyntaxError", JsonSyntaxMessage(text))

\* String.prototype.split(/\r?\n/)[0]: the text before the first line break.
FirstLine(s) == IF s = "bad grant\r\ntrace 1" THEN "bad grant" ELSE s


\* Buffer.byteLength(string): the number of bytes of its UTF-8 encoding. The
\* text "café" has four characters and five bytes.
ByteLength(s) ==
    CASE s = "{\"a\":1}" -> 7
      [] s = "a=1" -> 3
      [] s = "hi" -> 2
      [] s = "caf\\u00e9" -> 5
      [] OTHER -> Len(s)

\* The structured objects a caller sends: {a: 1}.
\* JSON.stringify(object) and querystring.stringify(object).
JSONstringify(o) == IF o = [a |-> Num(1)] THEN "{\"a\":1}" ELSE "{}"
QSstringify(o) == IF o = [a |-> Num(1)] THEN "a=1" ELSE ""

\* String.prototype.indexOf(ch) on the paths the model uses: the position of
\* the first ch, -1 when there is none.
StringIndexOf(s, ch) ==
    CASE s = "get?x=1" /\ ch = "?" -> 3
      [] s = "?" /\ ch = "?" -> 0
      [] OTHER -> -1

\* util.isObject, Buffer.isBuffer, util.isString; typeof x === 'function'.
IsObject(x) == x.t \in {"object", "buffer", "headers"}
IsBuffer(x) == x.t = "buffer"
IsString(x) == x.t \in {"string", "tokens"}
IsFunction(x) == x.t = "function"

----------------------------------------------------------------------------
\* Header mappings: an object is its (key, value) pairs in insertion order.
\* A media type is a string given by its tokens.

Tokens(ts) == [t |-> "tokens", v |-> ts]
Headers(pairs) == [t |-> "headers", v |-> pairs]

\* headers[key] = value: an own key keeps its place, a new key goes last.
SetHeader(h, key, value) ==
    IF \E i \in 1..Len(h.v) : h.v[i][1] = key
    THEN Headers([i \in 1..Len(h.v) |->
                    IF h.v[i][1] = key THEN <<key, value>> ELSE h.v[i]])
    ELSE Headers(Append(h.v, <<key, value>>))

\* _headerValue comparing the key as written, not lower-cased.
HeaderValueCaseSensitive(headers, name) ==
    IF IsObject(headers)
    THEN LET hits == { i \in 1..Len(headers.v) : headers.v[i][1] = name }
         IN  IF hits = {} THEN Null
             ELSE headers.v[CHOOSE i \in hits : \A j \in hits : i <= j][2]
    ELSE Null

\* _headerValue(headers, name): the value of the first key that lower-cases
\* to name, null when there is none or headers is no object.
_headerValue(headers, name) ==
    IF IsObject(headers)
    THEN LET hits == { i \in 1..Len(headers.v) : ToLowerCase(headers.v[i][1]) = name }
         IN  IF hits = {} THEN Null
             ELSE headers.v[CHOOSE i \in hits : \A j \in hits : i <= j][2]
    ELSE Null

\* String.prototype.indexOf(token): 0-based, -1 when absent.
IndexOf(ts, token) ==
    LET hits == { i \in 1..Len(ts) : ts[i] = token }
    IN  IF hits = {} THEN -1 ELSE (CHOOSE i \in hits : \A j \in hits : i <= j) - 1

StartsWith(ts, token) == Len(ts) >= 1 /\ ts[1] = token
EndsWith(ts, token) == Len(ts) >= 1 /\ ts[Len(ts)] = token

\* _removeParams(value): the value up to its first ';', when one follows
\* at least one character.
_removeParams(value) ==
    IF Truthy(value)
    THEN LET semi == IndexOf(value.v, ";")
         IN  IF semi > 0 THEN Tokens(SubSeq(value.v, 1, semi)) ELSE value
    ELSE value

----------------------------------------------------------------------------
\* The status collaborator (the package @be/http-status, used at lines
\* 473-481): 204 is the no-content status, 4xx and 5xx are the errors, and
\* error(message) makes the structured error of the status code.

HttpStatus(code) == [code |-> code]
noContent(status) == status.code = 204
isError(status) == status.code >= 400
StatusError(status, message) ==
    [t |-> "error", name |-> "HttpError", code |-> status.code, message |-> message]

\* new Error(message): an error that carries no status code.
NewError(message) == [t |-> "error", name |-> "Error", message |-> message]

\* The decimal text of a port number.
NumberToString(n) ==
    CASE n = 80 -> "80"
      [] n = 443 -> "443"
      [] n = 8080 -> "8080"
      [] n = 9000 -> "9000"
      [] OTHER -> "NaN"

----------------------------------------------------------------------------
\* The response pipeline's helpers

\* _parseBody with an empty body taken for no body: no parse, a null value.
ParseBodyEmptyAsNull(type, body) ==
    IF type = Tokens(JSON_MEDIA_TYPE)
    THEN IF body.t = "null"
         THEN Throw("TypeError", "Cannot read property 'toString' of null")
         ELSE IF body.v = <<>> THEN Return(Null)
         ELSE JSONparse(BufferToString(body.v))
    ELSE IF Truthy(type) /\ (StartsWith(type.v, "text/") \/ EndsWith(type.v, "+xml"))
    THEN IF body.t = "null"
         THEN Throw("TypeError", "Cannot read property 'toString' of null")
         ELSE Return(Str(BufferToString(body.v)))
    ELSE Return(body)

\* _parseBody that takes only text/* for text, and not *+xml.
ParseBodyNoXml(type, body) ==
    IF type = Tokens(JSON_MEDIA_TYPE)
    THEN IF body.t = "null"
         THEN Throw("TypeError", "Cannot read property 'toString' of null")
         ELSE JSONparse(BufferToString(body.v))
    ELSE IF Truthy(type) /\ StartsWith(type.v, "text/")
    THEN IF body.t = "null"
         THEN Throw("TypeError", "Cannot read property 'toString' of null")
         ELSE Return(Str(BufferToString(body.v)))
    ELSE Return(body)

\* _parseBody(type, body). body.toString() of a null body throws a TypeError.
_parseBody(type, body) ==
    IF type = Tokens(JSON_MEDIA_TYPE)
    THEN IF body.t = "null"
         THEN Throw("TypeError", "Cannot read property 'toString' of null")
         ELSE JSONparse(BufferToString(body.v))
    ELSE IF Truthy(type) /\ (StartsWith(type.v, "text/") \/ EndsWith(type.v, "+xml"))
    THEN IF body.t = "null"
         THEN Throw("TypeError", "Cannot read property 'toString' of null")
         ELSE Return(Str(BufferToString(body.v)))
    ELSE Return(body)

\* return callback(httpError(code, options, message)) inside _parseError:
\* callback, code and options are no variables of that function or of the
\* module, so evaluating the call throws a ReferenceError.
CallUnboundCallback == Throw("ReferenceError", "callback is not defined")

\* _parseError(type, body).
_parseError(type, body) ==
    IF type # Tokens(JSON_MEDIA_TYPE) THEN Return(Null)
    ELSE IF body.t \in {"null", "undefined"}
    THEN Throw("TypeError", "Cannot read property 'error_description' of null")
    ELSE IF Truthy(Prop(body, "error_description"))
    THEN CallUnboundCallback
    ELSE IF Truthy(Prop(body, "error")) /\ Truthy(Prop(Prop(body, "error"), "message"))
    THEN CallUnboundCallback
    ELSE IF Truthy(Prop(body, "odata.error"))
            /\ Truthy(Prop(Prop(body, "odata.error"), "message"))
    THEN CallUnboundCallback
    ELSE Return(Null)

\* _makeMessage(opt, txt): the parts of the message, in order.
_makeMessage(opt, txt) ==
    LET msg == <<"[", opt.method, " ", opt.protocol, "//", opt.host, ":",
                 NumberToString(opt.port), opt.path, "]">>
    IN  IF Truthy(txt) THEN msg \o <<" ", txt.v>> ELSE msg

\* The response object handed to the callback.
Outcome(status, headers, type, body) ==
    [t |-> "response", status |-> status, headers |-> headers, type |-> type, body |-> body]

\* One invocation of the caller's callback: callback(err) or callback(err, res).
Invocation(err, res) == [err |-> err, res |-> res]

\* The 'end' handler reporting an error status as callback(err), with no
\* response object.
OnEndErrorAlone(statusCode, headers, chunkList, options) ==
    LET status == HttpStatus(statusCode)
        type == _removeParams(_headerValue(headers, CONTENT_TYPE_HEADER))
        body == IF noContent(status) THEN Null ELSE Buf(BufferConcat(chunkList))
        parsed == _parseBody(type, body)
    IN  IF parsed.throw \/ isError(status)
        THEN << Invocation(StatusError(status, _makeMessage(options, Null)), Undefined) >>
        ELSE << Invocation(Null, Outcome(status, headers, type, parsed.value)) >>

\* The 'end' handler looking for the error shapes in the body of every
\* response, whatever its status.
OnEndShapesForEveryStatus(statusCode, headers, chunkList, options) ==
    LET status == HttpStatus(statusCode)
        type == _removeParams(_headerValue(headers, CONTENT_TYPE_HEADER))
        body == IF noContent(status) THEN Null ELSE Buf(BufferConcat(chunkList))
        parsed == _parseBody(type, body)
        found == _parseError(type, parsed.value)
        caught(e) == NewError(_makeMessage(options, Str("Parse Error: " \o e.message)))
    IN  IF parsed.throw
        THEN << Invocation(caught(parsed), Outcome(status, headers, type, body)) >>
        ELSE IF found.throw
        THEN << Invocation(caught(found), Outcome(status, headers, type, parsed.value)) >>
        ELSE IF ~isError(status)
        THEN << Invocation(Null, Outcome(status, headers, type, parsed.value)) >>
        ELSE << Invocation(StatusError(status, _makeMessage(options, found.value)),
                           Outcome(status, headers, type, parsed.value)) >>

\* The 'end' handler of a response (lines 472-492): the invocations of the
\* callback it makes, in order, from the status code, the response headers,
\* the chunks pushed so far and the options of the request.
OnEnd(statusCode, headers, chunkList, options) ==
    LET status == HttpStatus(statusCode)
        type == _removeParams(_headerValue(headers, CONTENT_TYPE_HEADER))
        body == IF noContent(status) THEN Null ELSE Buf(BufferConcat(chunkList))
        parsed == _parseBody(type, body)
        found == _parseError(type, parsed.value)
        caught(e) == NewError(_makeMessage(options, Str("Parse Error: " \o e.message)))
    IN  IF parsed.throw
        THEN << Invocation(caught(parsed), Outcome(status, headers, type, body)) >>
        ELSE IF ~isError(status)
        THEN << Invocation(Null, Outcome(status, headers, type, parsed.value)) >>
        ELSE IF found.throw
        THEN << Invocation(caught(found), Outcome(status, headers, type, parsed.value)) >>
        ELSE << Invocation(StatusError(status, _makeMessage(options, found.value)),
                           Outcome(status, headers, type, parsed.value)) >>

\* An 'error' handler that hands the callback a new Error of the same
\* message.
OnErrorWrapped(err) == << Invocation(NewError(err.message), Undefined) >>

\* The 'error' handler of a request (lines 494-496): callback(err).
OnError(err) == << Invocation(err, Undefined) >>

----------------------------------------------------------------------------
\* The client

\* Appending a query after '?' whatever the path holds.
AppendQueryAfterQuestionMark(path, query) ==
    LET encoded == IF IsObject(query) THEN Str(QSstringify(query.v)) ELSE query
    IN  IF IsString(encoded) THEN Str(path.v \o "?" \o encoded.v) ELSE path

\* _appendQuery(path, query) (lines 299-308): an object is form-encoded; a
\* string is appended after '?', or after '&' when the path has a '?';
\* anything else leaves the path as it is.
_appendQuery(path, query) ==
    LET encoded == IF IsObject(query) THEN Str(QSstringify(query.v)) ELSE query
    IN  IF IsString(encoded)
        THEN Str(path.v \o (IF StringIndexOf(path.v, "?") < 0 THEN "?" ELSE "&")
                        \o encoded.v)
        ELSE path

\* The URIs a caller constructs a client from.
Uris ==
    { "http://httpbin.org", "https://httpbin.org", "http://example.com:8080/api",
      "https://example.com:9000/api/", "http://example.com:0/", "ftp://example.com/" }

\* url.parse(uri) on the URIs the model uses.
UrlParse(uri) ==
    CASE uri = "http://httpbin.org" ->
             [protocol |-> "http:", hostname |-> "httpbin.org", pathname |-> "/",
              port |-> Null]
      [] uri = "https://httpbin.org" ->
             [protocol |-> "https:", hostname |-> "httpbin.org", pathname |-> "/",
              port |-> Null]
      [] uri = "http://example.com:8080/api" ->
             [protocol |-> "http:", hostname |-> "example.com", pathname |-> "/api",
              port |-> Str("8080")]
      [] uri = "https://example.com:9000/api/" ->
             [protocol |-> "https:", hostname |-> "example.com", pathname |-> "/api/",
              port |-> Str("9000")]
      [] uri = "http://example.com:0/" ->
             [protocol |-> "http:", hostname |-> "example.com", pathname |-> "/",
              port |-> Str("0")]
      [] OTHER ->
             [protocol |-> "ftp:", hostname |-> "example.com", pathname |-> "/",
              port |-> Null]

\* parseInt(port): the number the digits write, NaN for a null port.
ParseInt(port) ==
    CASE port = Str("8080") -> Num(8080)
      [] port = Str("9000") -> Num(9000)
      [] port = Str("0") -> Num(0)
      [] OTHER -> NaN

\* new HttpService(uri, options): the fields of the instance, or the
\* URIError thrown for a protocol that is neither http: nor https:.
Constructor(uri, options) ==
    LET parsed == UrlParse(uri)
        port == ParseInt(parsed.port)
    IN  IF parsed.protocol # "http:" /\ parsed.protocol # "https:"
        THEN Throw("URIError", "invalid protocol (expected http or https)")
        ELSE Return([protocol |-> parsed.protocol,
                     hostname |-> parsed.hostname,
                     pathname |-> parsed.pathname,
                     port |-> IF ~Truthy(port)
                              THEN (IF parsed.protocol = "http:" THEN 80 ELSE 443)
                              ELSE port.v,
                     options |-> IF Truthy(options) THEN options.v ELSE <<>>])

----------------------------------------------------------------------------
\* request(method, path, headers, data, callback), up to its return

\* Serialization that falls back to JSON for a Content-Type it does not
\* know, and throws nothing.
SerializeDefaultJson(headers, data) ==
    IF data # Null /\ IsObject(data) /\ ~IsBuffer(data)
    THEN LET type == _headerValue(headers, CONTENT_TYPE_HEADER)
         IN  CASE type = Tokens(FORM_MEDIA_TYPE) ->
                      [throw |-> FALSE, headers |-> headers,
                       data |-> Str(QSstringify(data.v))]
               [] type = Null ->
                      [throw |-> FALSE,
                       headers |-> SetHeader(headers, CONTENT_TYPE_HEADER,
                                             Tokens(JSON_MEDIA_TYPE)),
                       data |-> Str(JSONstringify(data.v))]
               [] OTHER ->
                      [throw |-> FALSE, headers |-> headers,
                       data |-> Str(JSONstringify(data.v))]
    ELSE [throw |-> FALSE, headers |-> headers, data |-> data]

\* Lines 436-453: a structured object is serialized by the Content-Type of
\* the request's headers; the result is the headers and the data after it,
\* or the TypeError thrown.
Serialize(headers, data) ==
    IF data # Null /\ IsObject(data) /\ ~IsBuffer(data)
    THEN LET type == _headerValue(headers, CONTENT_TYPE_HEADER)
         IN  CASE type = Tokens(JSON_MEDIA_TYPE) ->
                      [throw |-> FALSE, headers |-> headers,
                       data |-> Str(JSONstringify(data.v))]
               [] type = Tokens(FORM_MEDIA_TYPE) ->
                      [throw |-> FALSE, headers |-> headers,
                       data |-> Str(QSstringify(data.v))]
               [] type = Null ->
                      [throw |-> FALSE,
                       headers |-> SetHeader(headers, CONTENT_TYPE_HEADER,
                                             Tokens(JSON_MEDIA_TYPE)),
                       data |-> Str(JSONstringify(data.v))]
               [] OTHER ->
                      [throw |-> TRUE, headers |-> headers, data |-> data,
                       name |-> "TypeError",
                       message |-> "Unsuported media type. Cannot serialize object."]
    ELSE [throw |-> FALSE, headers |-> headers, data |-> data]

\* Lines 454-456: a string body with no Content-Length among the headers
\* gets one, the byte length of the string.
SetContentLength(headers, data) ==
    IF data # Null /\ IsString(data)
       /\ _headerValue(headers, CONTENT_LENGTH_HEADER) = Null
    THEN SetHeader(headers, CONTENT_LENGTH_HEADER, Num(ByteLength(data.v)))
    ELSE headers

\* Options in which an entry of the instance's options wins over the field
\* of the request of the same name.
MakeOptionsInstanceWins(this, method, path, headers) ==
    this.options @@ [method |-> method,
                     protocol |-> this.protocol,
                     host |-> this.hostname,
                     port |-> this.port,
                     path |-> this.pathname \o (IF Truthy(path) THEN path.v ELSE ""),
                     headers |-> headers]

\* Lines 458-466: the options of the transport call, the instance's options
\* overridden by the fields of the request.
MakeOptions(this, method, path, headers) ==
    [method |-> method,
     protocol |-> this.protocol,
     host |-> this.hostname,
     port |-> this.port,
     path |-> this.pathname \o (IF Truthy(path) THEN path.v ELSE ""),
     headers |-> headers] @@ this.options

\* What the transport has seen of a call: whether client.request was
\* invoked and with what options, what was written, whether end was called.
NoTransport == [created |-> FALSE, options |-> <<>>, written |-> <<>>, ended |-> FALSE]

\* The synchronous part of request (lines 432-505): the headers object after
\* it, what the transport saw, and the exception thrown to the caller if any.
RequestCall(this, method, path, headersArg, data) ==
    LET upper == ToUpperCase(method)
        headers0 == IF Truthy(headersArg) THEN headersArg ELSE Headers(<<>>)
        ser == Serialize(headers0, data)
        headers == SetContentLength(ser.headers, ser.data)
        options == MakeOptions(this, upper, path, headers)
    IN  IF ser.throw
        THEN [headers |-> headers0, transport |-> NoTransport,
              thrown |-> Throw(ser.name, ser.message)]
        ELSE IF ser.data # Null /\ ~(IsString(ser.data) \/ IsBuffer(ser.data))
        THEN [headers |-> headers,
              transport |-> [created |-> TRUE, options |-> options,
                             written |-> <<>>, ended |-> FALSE],
              thrown |-> Throw("TypeError", "Expected a string or Buffer for the data")]
        ELSE [headers |-> headers,
              transport |-> [created |-> TRUE, options |-> options,
                             written |-> IF ser.data = Null THEN <<>> ELSE <<ser.data>>,
                             ended |-> TRUE],
              thrown |-> Return(Undefined)]

----------------------------------------------------------------------------
\* The state

VARIABLES
    constructed,    \* the caller's last new HttpService: arguments and result
    service,        \* the HttpService instance (this)
    sharedHeaders,  \* a headers object the caller keeps and passes again
    pc,             \* per call: idle, thrown, pending, receiving, ended or failed
    args,           \* per call: the arguments request was called with
    transport,      \* per call: what the transport has seen of it
    thrown,         \* per call: what request threw to the caller, or returned
    response,       \* per call: the status code and headers of the response
    chunks,         \* per call: the chunks array of the call's closure
    delivered,      \* per call: the chunks the transport emitted on its response
    callbacks       \* per call: the invocations of the call's callback, in order

vars == <<constructed, service, sharedHeaders, pc, args, transport, thrown, response, chunks,
          delivered, callbacks>>

CallIds == 1..MaxCalls

\* The arguments of a call of request, and the call of the service the
\* caller made (request itself, or the method that called it).
Direct == [fn |-> "request"]
NoArgs ==
    [api |-> Direct, method |-> "", path |-> Null, headers |-> Null, data |-> Null,
     callback |-> Undefined, shared |-> FALSE]
NoResponse == [statusCode |-> 0, headers |-> Headers(<<>>)]

\* new HttpService(uri, options) by the caller: what it was given and what
\* came of it.
New(uri, options) == [uri |-> uri, options |-> options, result |-> Constructor(uri, options)]

\* const service = new HttpService('http://httpbin.org')
Init ==
    /\ constructed = New("http://httpbin.org", Null)
    /\ service = constructed.result.value
    /\ sharedHeaders = Headers(<<>>)
    /\ pc = [c \in CallIds |-> "idle"]
    /\ args = [c \in CallIds |-> NoArgs]
    /\ transport = [c \in CallIds |-> NoTransport]
    /\ thrown = [c \in CallIds |-> Return(Undefined)]
    /\ response = [c \in CallIds |-> NoResponse]
    /\ chunks = [c \in CallIds |-> <<>>]
    /\ delivered = [c \in CallIds |-> <<>>]
    /\ callbacks = [c \in CallIds |-> <<>>]

\* A caller may call again once its earlier call is over: the transport
\* delivered the response's end or an error, or request threw before it made
\* a transport request.
CanCall(c) ==
    \/ pc[c] \in {"idle", "ended", "failed"}
    \/ pc[c] = "thrown" /\ ~transport[c].created

\* The caller replaces its client: service = new HttpService(uri, options).
\* When the constructor throws, the caller keeps the client it had. Calls in
\* flight keep the options they were made with.
construct(uri, options) ==
    /\ constructed' = New(uri, options)
    /\ service' = IF constructed'.result.throw THEN service ELSE constructed'.result.value
    /\ UNCHANGED <<sharedHeaders, pc, args, transport, thrown, response, chunks,
                   delivered, callbacks>>

\* service.request(method, path, headers, data, callback) by caller c, made
\* directly or by the method api names. With shared, headers is the caller's
\* kept object, which the call writes to.
request(c, api, method, path, headersArg, data, callback, shared) ==
    LET passed == IF shared THEN sharedHeaders ELSE headersArg
        call == RequestCall(service, method, path, passed, data)
    IN  /\ CanCall(c)
        /\ args' = [args EXCEPT ![c] = [api |-> api, method |-> method, path |-> path,
                                        headers |-> passed, data |-> data,
                                        callback |-> callback, shared |-> shared]]
        /\ sharedHeaders' = IF shared THEN call.headers ELSE sharedHeaders
        /\ transport' = [transport EXCEPT ![c] = call.transport]
        /\ thrown' = [thrown EXCEPT ![c] = call.thrown]
        /\ pc' = [pc EXCEPT ![c] = IF call.thrown.throw THEN "thrown" ELSE "pending"]
        /\ response' = [response EXCEPT ![c] = NoResponse]
        /\ chunks' = [chunks EXCEPT ![c] = <<>>]
        /\ delivered' = [delivered EXCEPT ![c] = <<>>]
        /\ callbacks' = [callbacks EXCEPT ![c] = <<>>]
        /\ UNCHANGED <<constructed, service>>

\* service.get(path, [query,] callback) (lines 396-404): a function in the
\* place of query is the callback; any other query is appended to the path.
get(c, path, query, callback) ==
    LET api == [fn |-> "get", path |-> path, query |-> query, callback |-> callback]
    IN  IF IsFunction(query)
        THEN request(c, api, "GET", path, Null, Null, query, FALSE)
        ELSE request(c, api, "GET", _appendQuery(path, query), Null, Null, callback, FALSE)

\* service.head(path, [query,] callback) (lines 406-414).
head(c, path, query, callback) ==
    LET api == [fn |-> "head", path |-> path, query |-> query, callback |-> callback]
    IN  IF IsFunction(query)
        THEN request(c, api, "HEAD", path, Null, Null, query, FALSE)
        ELSE request(c, api, "HEAD", _appendQuery(path, query), Null, Null, callback, FALSE)

\* service.post, put, patch (path, data, callback).
post(c, path, data, callback) ==
    request(c, [fn |-> "post"], "POST", path, Null, data, callback, FALSE)
put(c, path, data, callback) ==
    request(c, [fn |-> "put"], "PUT", path, Null, data, callback, FALSE)
patch(c, path, data, callback) ==
    request(c, [fn |-> "patch"], "PATCH", path, Null, data, callback, FALSE)

\* service.delete(path, callback).
delete(c, path, callback) ==
    request(c, [fn |-> "delete"], "DELETE", path, Null, Null, callback, FALSE)

\* The transport calls the response callback of client.request (line 468):
\* the data and end handlers are registered.
OnResponse(c, statusCode, headers) ==
    /\ pc[c] = "pending"
    /\ pc' = [pc EXCEPT ![c] = "receiving"]
    /\ response' = [response EXCEPT ![c] = [statusCode |-> statusCode, headers |-> headers]]
    /\ UNCHANGED <<constructed, service, sharedHeaders, args, transport, thrown, chunks, delivered,
                   callbacks>>

\* chunks.push(chunk) on one chunks array that every call shares.
PushShared(list, c, chunk) == [d \in DOMAIN list |-> Append(list[d], chunk)]

\* chunks.push(chunk) of call c's closure (line 470).
Push(list, c, chunk) == [list EXCEPT ![c] = Append(@, chunk)]

\* A response to HEAD and a 204 response carry no body.
HasBody(c) == transport[c].options.method # "HEAD" /\ response[c].statusCode # 204

\* The response emits 'data' (lines 469-471).
OnData(c, chunk) ==
    /\ pc[c] = "receiving"
    /\ HasBody(c)
    /\ Len(delivered[c]) < MaxChunks
    /\ chunks' = Push(chunks, c, chunk)
    /\ delivered' = [delivered EXCEPT ![c] = Append(@, chunk)]
    /\ UNCHANGED <<constructed, service, sharedHeaders, pc, args, transport, thrown, response,
                   callbacks>>

\* The response emits 'end' (lines 472-492).
OnResponseEnd(c) ==
    /\ pc[c] = "receiving"
    /\ pc' = [pc EXCEPT ![c] = "ended"]
    /\ callbacks' = [callbacks EXCEPT ![c] =
           @ \o OnEnd(response[c].statusCode, response[c].headers, chunks[c],
                      transport[c].options)]
    /\ UNCHANGED <<constructed, service, sharedHeaders, args, transport, thrown, response, chunks,
                   delivered>>

\* The request emits 'error' (lines 494-496): before a response; in the
\* middle of one (no 'end' follows); after the response's 'end', when the
\* socket fails while it is being closed (the transport keeps its error
\* listener on a socket it does not keep alive, and emits what it hears on
\* the request); or on a request that was created and, request having
\* thrown, never ended. An error is the last event of a request.
OnRequestError(c, err) ==
    /\ \/ pc[c] \in {"pending", "receiving", "ended"}
       \/ pc[c] = "thrown" /\ transport[c].created
    /\ pc' = [pc EXCEPT ![c] = "failed"]
    /\ callbacks' = [callbacks EXCEPT ![c] = @ \o OnError(err)]
    /\ UNCHANGED <<constructed, service, sharedHeaders, args, transport, thrown, response, chunks,
                   delivered>>

----------------------------------------------------------------------------
\* The inputs

TextPlain == <<"text/", "plain">>
AtomXml == <<"application/", "atom", "+xml">>
OctetStream == <<"application/", "octet-stream">>

ContentTypeHeader(ts) == Headers(<< <<"content-type", Tokens(ts)>> >>)

StatusCodes == {200, 204, 401, 418}
ResponseHeaders ==
    { Headers(<<>>),
      ContentTypeHeader(JSON_MEDIA_TYPE),
      ContentTypeHeader(JSON_MEDIA_TYPE \o <<";", " charset=utf-8">>),
      ContentTypeHeader(TextPlain),
      ContentTypeHeader(AtomXml),
      ContentTypeHeader(OctetStream) }
Chunks == { <<r>> : r \in ByteRuns }
TransportErrors ==
    { [t |-> "error", name |-> "Error", message |-> <<"socket hang up">>,
       syscall |-> "ECONNRESET"] }

\* The function a caller passes for its callback.
Callback == Fn("callback")

\* One caller, every response.
Next ==
    \E c \in {1} :
        \/ \E m \in {"get", "HEAD"} :
               request(c, Direct, m, Str("get"), Null, Null, Callback, FALSE)
        \/ get(c, Str("status/418"), Callback, Undefined)
        \/ \E code \in StatusCodes, h \in ResponseHeaders : OnResponse(c, code, h)
        \/ \E chunk \in Chunks : OnData(c, chunk)
        \/ OnResponseEnd(c)
        \/ \E err \in TransportErrors : OnRequestError(c, err)

Spec == Init /\ [][Next]_vars

\* The arguments of a request: the headers and the bodies a caller passes.
RequestHeaders ==
    { Null,
      Headers(<< <<"Content-Type", Tokens(JSON_MEDIA_TYPE)>> >>),
      Headers(<< <<"Content-Type", Tokens(FORM_MEDIA_TYPE)>> >>),
      Headers(<< <<"content-type", Tokens(TextPlain)>> >>),
      Headers(<< <<"Accept", Tokens(JSON_MEDIA_TYPE)>>, <<"Content-Length", Num(99)>> >>) }
RequestBodies ==
    { Null, Undefined, Obj([a |-> Num(1)]), Str("hi"), Str("caf\\u00e9"), Buf(<<5>>),
      Num(42) }

\* The paths and the queries a caller passes to get and head.
Paths == { Str("get"), Str("get?x=1") }
Queries == { Obj([a |-> Num(1)]), Obj(<<>>), Str("b=2"), Null }

\* One caller, every request; the response is a 200 text/plain.
NextRequest ==
    \E c \in {1} :
        \/ \E m \in {"post", "PUT"}, h \in RequestHeaders, d \in RequestBodies :
               request(c, Direct, m, Str("post"), h, d, Callback, FALSE)
        \/ \E d \in RequestBodies :
               request(c, Direct, "POST", Str("post"), Null, d, Callback, TRUE)
        \/ \E p \in Paths, q \in Queries : get(c, p, q, Callback)
        \/ \E p \in Paths : get(c, p, Callback, Undefined)
        \/ \E p \in Paths, q \in Queries : head(c, p, q, Callback)
        \/ \E p \in Paths : head(c, p, Callback, Undefined)
        \/ \E d \in RequestBodies : post(c, Str("post"), d, Callback)
        \/ \E d \in RequestBodies : put(c, Str("put"), d, Callback)
        \/ \E d \in RequestBodies : patch(c, Str("patch"), d, Callback)
        \/ delete(c, Str("delete"), Callback)
        \/ OnResponse(c, 200, ContentTypeHeader(TextPlain))
        \/ OnData(c, <<6>>)
        \/ OnResponseEnd(c)
        \/ \E err \in TransportErrors : OnRequestError(c, err)

SpecRequest == Init /\ [][NextRequest]_vars

\* Concurrent callers of one client; every response is a 200.
NextConcurrent ==
    \E c \in CallIds :
        \/ get(c, Str("get"), Callback, Undefined)
        \/ OnResponse(c, 200, ContentTypeHeader(JSON_MEDIA_TYPE))
        \/ \E chunk \in { <<1>>, <<2>> } : OnData(c, chunk)
        \/ OnResponseEnd(c)
        \/ \E err \in TransportErrors : OnRequestError(c, err)

SpecConcurrent == Init /\ [][NextConcurrent]_vars

\* The options a caller constructs a client with: none, or some that name
\* fields a request sets too.
TransportOptions ==
    { Null, Obj([timeout |-> 5, method |-> "TRACE", path |-> "/elsewhere", port |-> 1]) }

\* One caller that makes clients and requests on them.
NextClient ==
    \/ \E uri \in Uris, options \in TransportOptions : construct(uri, options)
    \/ \E c \in {1} :
           \/ \E m \in {"get", "post"}, p \in {Null, Str("get")}, d \in {Null, Str("hi")} :
                  request(c, Direct, m, p, Null, d, Callback, FALSE)
           \/ OnResponse(c, 200, ContentTypeHeader(TextPlain))
           \/ OnData(c, <<6>>)
           \/ OnResponseEnd(c)
           \/ \E err \in TransportErrors : OnRequestError(c, err)

SpecClient == Init /\ [][NextClient]_vars

----------------------------------------------------------------------------
\* What the claims speak of

\* The call's response is complete: its 'end' was delivered.
Ended(c) == pc[c] = "ended"

\* The normalized Content-Type of the call's response.
NormalizedType(c) == _removeParams(_headerValue(response[c].headers, CONTENT_TYPE_HEADER))

\* The bytes the transport delivered for the call, and their text.
DeliveredBytes(c) == BufferConcat(delivered[c])
DeliveredText(c) == BufferToString(DeliveredBytes(c))

\* The call's response is neither no-content nor an answer to HEAD.
Bodied(c) == response[c].statusCode # 204 /\ transport[c].options.method # "HEAD"

\* The one invocation of the call's callback.
TheInvocation(c) == callbacks[c][1]

IsJson(type) == type = Tokens(JSON_MEDIA_TYPE)
IsText(type) == type.t = "tokens" /\ (StartsWith(type.v, "text/") \/ EndsWith(type.v, "+xml"))

----------------------------------------------------------------------------
\* C1: the callback of a call is never invoked twice, and it has been
\* invoked exactly once when the transport has delivered the response's end
\* or an error, whatever the status code and the Content-Type, absent
\* included.
C1_CallbackExactlyOnce ==
    \A c \in CallIds :
        /\ Len(callbacks[c]) <= 1
        /\ pc[c] \in {"ended", "failed"} => Len(callbacks[c]) = 1

\* C2: in every invocation of the callback, a non-null error comes with no
\* response object, and a response object comes with a null error.
C2_ErrorXorOutcome ==
    \A c \in CallIds : \A i \in 1..Len(callbacks[c]) :
        /\ callbacks[c][i].err # Null => callbacks[c][i].res = Undefined
        /\ callbacks[c][i].res # Undefined => callbacks[c][i].err = Null

\* The message the claim expects of a parsed body: error_description up to
\* its first line break, else error.message, else odata.error.message.value.
ClaimedShapes(body) ==
    (IF Truthy(Prop(body, "error_description"))
     THEN << FirstLine(Prop(body, "error_description").v) >> ELSE <<>>)
    \o (IF Truthy(Prop(Prop(body, "error"), "message"))
        THEN << Prop(Prop(body, "error"), "message").v >> ELSE <<>>)
    \o (IF Truthy(Prop(Prop(Prop(body, "odata.error"), "message"), "value"))
        THEN << Prop(Prop(Prop(body, "odata.error"), "message"), "value").v >> ELSE <<>>)

\* C3: an error status with a JSON body of one of the error shapes gives an
\* HttpError of the status code whose message contains the text of the first
\* matching shape.
C3_ServerErrorMessage ==
    \A c \in CallIds :
        ( /\ Ended(c)
          /\ isError(HttpStatus(response[c].statusCode))
          /\ Bodied(c)
          /\ IsJson(NormalizedType(c))
          /\ DeliveredText(c) \in JsonTexts
          /\ ClaimedShapes(JsonValue(DeliveredText(c))) # <<>> )
        => /\ Len(callbacks[c]) = 1
           /\ TheInvocation(c).err.t = "error"
           /\ TheInvocation(c).err.name = "HttpError"
           /\ TheInvocation(c).err.code = response[c].statusCode
           /\ \E i \in 1..Len(TheInvocation(c).err.message) :
                  TheInvocation(c).err.message[i]
                      = Head(ClaimedShapes(JsonValue(DeliveredText(c))))

\* C4: a 204 response gives a null error and a response object with a null
\* body, whatever its Content-Type.
C4_NoContentSucceeds ==
    \A c \in CallIds :
        (Ended(c) /\ response[c].statusCode = 204)
        => /\ Len(callbacks[c]) = 1
           /\ TheInvocation(c).err = Null
           /\ TheInvocation(c).res # Undefined
           /\ TheInvocation(c).res.body = Null

\* C5: a response with a body, declared application/json, whose text is
\* empty or no JSON gives the parse failure, an Error (no HttpError) whose
\* message is that of the SyntaxError, for an error status as for any other.
C5_MalformedJsonIsParseFailure ==
    \A c \in CallIds :
        ( /\ Ended(c)
          /\ Bodied(c)
          /\ IsJson(NormalizedType(c))
          /\ DeliveredText(c) \notin JsonTexts )
        => /\ Len(callbacks[c]) = 1
           /\ TheInvocation(c).err # Null
           /\ TheInvocation(c).err.name = "Error"
           /\ TheInvocation(c).err.message
                  = _makeMessage(transport[c].options,
                                 Str("Parse Error: " \o JsonSyntaxMessage(DeliveredText(c))))

\* An error status with an empty application/json body, reported as the
\* parse failure.
C5_Witness ==
    \E c \in CallIds :
        /\ Ended(c)
        /\ response[c].statusCode = 401
        /\ IsJson(NormalizedType(c))
        /\ delivered[c] = <<>>
        /\ transport[c].options.method = "GET"
        /\ TheInvocation(c).err.name = "Error"

\* C8: the body of a response that is neither no-content nor an answer to
\* HEAD is the parsed value when the normalized type is application/json
\* (and the text is JSON), the decoded text when the type starts with text/
\* or ends with +xml, and the delivered bytes in every other case, no
\* Content-Type included.
C8_BodyResolvedByType ==
    \A c \in CallIds :
        (Ended(c) /\ Bodied(c))
        => /\ Len(callbacks[c]) = 1
           /\ TheInvocation(c).res # Undefined
           /\ IF IsJson(NormalizedType(c))
              THEN DeliveredText(c) \in JsonTexts
                   => TheInvocation(c).res.body = JsonValue(DeliveredText(c))
              ELSE IF IsText(NormalizedType(c))
              THEN TheInvocation(c).res.body = Str(DeliveredText(c))
              ELSE TheInvocation(c).res.body = Buf(DeliveredBytes(c))

\* A 200 text/plain response of the bytes of "hello": the body is the string.
C8_Witness ==
    \E c \in CallIds :
        /\ Ended(c)
        /\ response[c].statusCode = 200
        /\ NormalizedType(c) = Tokens(TextPlain)
        /\ delivered[c] = << <<6>> >>
        /\ TheInvocation(c).res.body = Str("hello")

----------------------------------------------------------------------------
\* The Content-Type the caller declared: the value of the first header of the
\* headers passed whose name is Content-Type in any case, null when none.
Declared(c) ==
    LET h == args[c].headers
        hits == IF h.t = "headers"
                THEN { i \in 1..Len(h.v) :
                         h.v[i][1] \in {"content-type", "Content-Type", "CONTENT-TYPE"} }
                ELSE {}
    IN  IF hits = {} THEN Null ELSE h.v[CHOOSE i \in hits : \A j \in hits : i <= j][2]

\* The call was made with a structured object for its body.
StructuredBody(c) == pc[c] # "idle" /\ args[c].data.t = "object"

\* C6: a call with a structured body and a declared Content-Type that is
\* neither application/json nor application/x-www-form-urlencoded throws a
\* TypeError; the transport's request function is not invoked for it,
\* nothing is written, and its callback is not invoked.
C6_UnsupportedTypeFailsBeforeTransport ==
    \A c \in CallIds :
        ( /\ StructuredBody(c)
          /\ Declared(c) \notin {Null, Tokens(JSON_MEDIA_TYPE), Tokens(FORM_MEDIA_TYPE)} )
        => /\ pc[c] = "thrown"
           /\ thrown[c].throw
           /\ thrown[c].name = "TypeError"
           /\ ~transport[c].created
           /\ transport[c].written = <<>>
           /\ callbacks[c] = <<>>

\* A structured body sent as text/plain: request has thrown.
C6_Witness ==
    \E c \in CallIds :
        /\ StructuredBody(c)
        /\ Declared(c) = Tokens(TextPlain)
        /\ pc[c] = "thrown"
        /\ ~transport[c].created

\* C7: a structured body is written JSON-encoded when the declared
\* Content-Type is application/json, form-encoded (which is not its JSON
\* encoding) when it is application/x-www-form-urlencoded, and JSON-encoded
\* with the Content-Type header of the request set to application/json when
\* none is declared; the header is found whatever the case of its name.
C7_SerializedByContentType ==
    \A c \in CallIds :
        StructuredBody(c)
        => /\ Declared(c) = Tokens(JSON_MEDIA_TYPE)
              => transport[c].written = << Str(JSONstringify(args[c].data.v)) >>
           /\ Declared(c) = Tokens(FORM_MEDIA_TYPE)
              => /\ transport[c].written = << Str(QSstringify(args[c].data.v)) >>
                 /\ transport[c].written # << Str(JSONstringify(args[c].data.v)) >>
           /\ Declared(c) = Null
              => /\ transport[c].written = << Str(JSONstringify(args[c].data.v)) >>
                 /\ \E i \in 1..Len(transport[c].options.headers.v) :
                        transport[c].options.headers.v[i]
                            = <<"content-type", Tokens(JSON_MEDIA_TYPE)>>

\* {a: 1} sent with the header Content-Type (so written) of the form type:
\* a=1 was written.
C7_Witness ==
    \E c \in CallIds :
        /\ StructuredBody(c)
        /\ args[c].headers = Headers(<< <<"Content-Type", Tokens(FORM_MEDIA_TYPE)>> >>)
        /\ transport[c].written = << Str("a=1") >>

\* C9: under every interleaving of the events of concurrent calls, the
\* chunks array of a call holds exactly the chunks of its own response in
\* their order of arrival, the body its callback gets is made of them, and
\* its callback is not invoked before its own response has ended.
C9_CallsAreIsolated ==
    \A c \in CallIds :
        /\ chunks[c] = delivered[c]
        /\ pc[c] \in {"pending", "receiving"} => callbacks[c] = <<>>
        /\ (Ended(c) /\ Bodied(c))
           => /\ Len(callbacks[c]) = 1
              /\ TheInvocation(c).res # Undefined
              /\ TheInvocation(c).res.body
                     = IF IsJson(NormalizedType(c))
                       THEN (IF DeliveredText(c) \in JsonTexts
                             THEN JsonValue(DeliveredText(c)) ELSE Buf(DeliveredBytes(c)))
                       ELSE IF IsText(NormalizedType(c))
                       THEN Str(DeliveredText(c)) ELSE Buf(DeliveredBytes(c))

\* Two calls in flight at once with different chunks: one has ended with
\* the two chunks of its JSON text, in order, while the other is receiving.
C9_Witness ==
    \E c, d \in CallIds :
        /\ c # d
        /\ Ended(c)
        /\ pc[d] = "receiving"
        /\ delivered[c] = << <<1>>, <<2>> >>
        /\ delivered[d] = << <<2>> >>
        /\ IsJson(NormalizedType(c))
        /\ TheInvocation(c).res.body = JsonValue(Utf8(1) \o Utf8(2))

----------------------------------------------------------------------------
\* The scheme of a URI and the port written in it (no element when none is).
Scheme(uri) ==
    CASE uri \in {"http://httpbin.org", "http://example.com:8080/api",
                  "http://example.com:0/"} -> "http"
      [] uri \in {"https://httpbin.org", "https://example.com:9000/api/"} -> "https"
      [] OTHER -> "ftp"
WrittenPort(uri) ==
    CASE uri = "http://example.com:8080/api" -> {8080}
      [] uri = "https://example.com:9000/api/" -> {9000}
      [] uri = "http://example.com:0/" -> {0}
      [] OTHER -> {}

\* C11: new HttpService(uri) succeeds exactly when the scheme of the URI is
\* http or https; the port of the client is the port written in the URI when
\* one is written, and 80 for http, 443 for https when none is.
C11_PortOfUri ==
    LET uri == constructed.uri
        result == constructed.result
    IN  /\ ~result.throw <=> Scheme(uri) \in {"http", "https"}
        /\ ~result.throw
           => /\ \A port \in WrittenPort(uri) : result.value.port = port
              /\ WrittenPort(uri) = {}
                 => result.value.port = (IF Scheme(uri) = "http" THEN 80 ELSE 443)

----------------------------------------------------------------------------
\* The call was made by get or head, with these arguments.
ByGetOrHead(c) == pc[c] # "idle" /\ args[c].api.fn \in {"get", "head"}

\* The paths of the model that contain a '?'.
ContainsQuestionMark(path) == path \in { Str("get?x=1") }

\* C12: get and head with a query object send the path followed by '?' and
\* the form-encoded query when the path contains no '?', by '&' and the
\* form-encoded query when it contains one; with the callback in the place
\* of the query the path is sent as it is and that callback is the one the
\* outcome is handed to.
C12_QueryAppendedToPath ==
    \A c \in CallIds :
        ByGetOrHead(c)
        => LET given == args[c].api
               sent == transport[c].options.path
           IN  /\ transport[c].created
               /\ transport[c].options.method = (IF given.fn = "get" THEN "GET" ELSE "HEAD")
               /\ (given.query.t = "object" /\ ~ContainsQuestionMark(given.path))
                  => sent = service.pathname \o given.path.v \o "?"
                                \o QSstringify(given.query.v)
               /\ (given.query.t = "object" /\ ContainsQuestionMark(given.path))
                  => sent = service.pathname \o given.path.v \o "&"
                                \o QSstringify(given.query.v)
               /\ IsFunction(given.query)
                  => /\ sent = service.pathname \o given.path.v
                     /\ args[c].callback = given.query
                     /\ Ended(c) => Len(callbacks[c]) = 1 /\ TheInvocation(c).res # Undefined

\* head('get?x=1', {a: 1}, callback) sent /get?x=1&a=1 and its callback got
\* the outcome.
C12_Witness ==
    \E c \in CallIds :
        /\ ByGetOrHead(c)
        /\ args[c].api.fn = "head"
        /\ args[c].api.query = Obj([a |-> Num(1)])
        /\ transport[c].options.path = "/get?x=1&a=1"
        /\ Ended(c)
        /\ Len(callbacks[c]) = 1

----------------------------------------------------------------------------
\* C13: the complete response to a HEAD request gives a response object whose
\* body is null, whatever its Content-Type; declared application/json, it is
\* not reported as the parse failure.
C13_HeadHasNoBody ==
    \A c \in CallIds :
        (Ended(c) /\ transport[c].options.method = "HEAD")
        => /\ Len(callbacks[c]) = 1
           /\ TheInvocation(c).res # Undefined
           /\ TheInvocation(c).res.body = Null
           /\ TheInvocation(c).err # Null => TheInvocation(c).err.name # "Error"

----------------------------------------------------------------------------
\* The body of the call's response resolves: it is not declared
\* application/json with a text that is no JSON, and it is not a no-content
\* response declared of a type whose body is decoded.
Resolves(c) ==
    IF response[c].statusCode = 204
    THEN ~IsJson(NormalizedType(c)) /\ ~IsText(NormalizedType(c))
    ELSE IsJson(NormalizedType(c)) => DeliveredText(c) \in JsonTexts

\* The body the call's response resolves to.
Resolved(c) ==
    IF response[c].statusCode = 204 THEN Null
    ELSE IF IsJson(NormalizedType(c)) THEN JsonValue(DeliveredText(c))
    ELSE IF IsText(NormalizedType(c)) THEN Str(DeliveredText(c))
    ELSE Buf(DeliveredBytes(c))

\* C14: a response whose status is no error and whose body resolves gives a
\* null error and a response object of the status, the normalized type, the
\* headers as received and the resolved body; an error_description, error or
\* odata.error in the parsed body does not make it a failure.
C14_NonErrorStatusSucceeds ==
    \A c \in CallIds :
        (Ended(c) /\ response[c].statusCode < 400 /\ Resolves(c))
        => /\ Len(callbacks[c]) = 1
           /\ TheInvocation(c).err = Null
           /\ TheInvocation(c).res
                  = [t |-> "response",
                     status |-> [code |-> response[c].statusCode],
                     headers |-> response[c].headers,
                     type |-> NormalizedType(c),
                     body |-> Resolved(c)]

\* A 200 application/json; charset=utf-8 response whose body has an
\* error_description and an error.message: the callback got a null error and
\* the parsed body.
C14_Witness ==
    \E c \in CallIds :
        /\ Ended(c)
        /\ response[c].statusCode = 200
        /\ response[c].headers
               = ContentTypeHeader(JSON_MEDIA_TYPE \o <<";", " charset=utf-8">>)
        /\ delivered[c] = << <<3>> >>
        /\ ClaimedShapes(JsonValue(DeliveredText(c))) # <<>>
        /\ TheInvocation(c).err = Null
        /\ TheInvocation(c).res.type = Tokens(JSON_MEDIA_TYPE)
        /\ TheInvocation(c).res.body = JsonValue(Utf8(3))

----------------------------------------------------------------------------
\* The call was made with a body that is present (not null) and is no
\* structured object, no string and no Buffer: a number, undefined.
UnsupportedBody(c) ==
    pc[c] # "idle" /\ args[c].data.t \notin {"null", "object", "string", "buffer"}

\* C15: a call with such a body throws a TypeError, and the transport's
\* request function has not been invoked for the call.
C15_UnsupportedBodyFailsBeforeTransport ==
    \A c \in CallIds :
        UnsupportedBody(c)
        => /\ thrown[c].throw
           /\ thrown[c].name = "TypeError"
           /\ ~transport[c].created

\* C16: the callback of a call that threw the TypeError of an unsupported
\* body is never invoked, whatever the transport does afterwards.
C16_ThrownCallNeverCallsBack ==
    \A c \in CallIds :
        (UnsupportedBody(c) /\ thrown[c].throw) => callbacks[c] = <<>>

----------------------------------------------------------------------------
----------------------------------------------------------------------------
\* The Content-Length among headers, in any case of its name: the value of
\* the first such header, null when there is none or no headers.
LengthAmong(h) ==
    LET hits == IF h.t = "headers"
                THEN { i \in 1..Len(h.v) :
                         h.v[i][1] \in {"content-length", "Content-Length", "CONTENT-LENGTH"} }
                ELSE {}
    IN  IF hits = {} THEN Null ELSE h.v[CHOOSE i \in hits : \A j \in hits : i <= j][2]

\* The number of bytes of a body written: of a string's UTF-8 encoding, of a
\* Buffer's byte runs.
BytesWritten(body) ==
    IF body.t = "buffer" THEN ByteLength(BufferToString(body.v)) ELSE ByteLength(body.v)

\* C18: when a body is written and the headers the caller passed have no
\* Content-Length, the headers handed to the transport have a Content-Length
\* of the number of bytes written; a Content-Length the caller passed is
\* handed on as it is.
C18_ContentLengthOfBodyWritten ==
    \A c \in CallIds :
        (transport[c].created /\ transport[c].written # <<>>)
        => IF LengthAmong(args[c].headers) = Null
           THEN LengthAmong(transport[c].options.headers)
                    = Num(BytesWritten(transport[c].written[1]))
           ELSE LengthAmong(transport[c].options.headers) = LengthAmong(args[c].headers)

----------------------------------------------------------------------------
\* The Content-Type among headers, in any case of its name.
TypeAmong(h) ==
    LET hits == IF h.t = "headers"
                THEN { i \in 1..Len(h.v) :
                         h.v[i][1] \in {"content-type", "Content-Type", "CONTENT-TYPE"} }
                ELSE {}
    IN  IF hits = {} THEN Null ELSE h.v[CHOOSE i \in hits : \A j \in hits : i <= j][2]

\* C19: a call made with the headers object the caller keeps (which the
\* caller made empty and passes to every such call) and a body written as a
\* string sends the Content-Length of that body, and the Content-Type
\* application/json when its body was a structured object and none when it
\* was a string, whatever calls were made with the object before.
C19_NoStateLeftBehind ==
    \A c \in CallIds :
        ( /\ pc[c] # "idle"
          /\ args[c].shared
          /\ transport[c].created
          /\ transport[c].written # <<>>
          /\ transport[c].written[1].t = "string" )
        => /\ LengthAmong(transport[c].options.headers)
                  = Num(BytesWritten(transport[c].written[1]))
           /\ TypeAmong(transport[c].options.headers)
                  = (IF args[c].data.t = "object" THEN Tokens(JSON_MEDIA_TYPE) ELSE Null)

----------------------------------------------------------------------------
\* The fields a request sets in the options of its transport call, from the
\* client it is made on and its own arguments.
OwnFields(this, a, headers) ==
    [method |-> ToUpperCase(a.method),
     protocol |-> this.protocol,
     host |-> this.hostname,
     port |-> this.port,
     path |-> this.pathname \o (IF a.path = Null THEN "" ELSE a.path.v),
     headers |-> headers]

\* C20: a call of request that reaches the transport hands it the client's
\* options with method (in upper case), protocol, host, port, path (the
\* client's pathname and the request's path, nothing between) and headers
\* set by the request, also where the client's options have an entry of that
\* name; and no call of request changes a field of the client.
C20_RequestFieldsOverrideOptions ==
    [][ \A c \in CallIds :
            transport'[c] # transport[c]
            => /\ service' = service
               /\ transport'[c].created
                  => LET sent == transport'[c].options
                         own == OwnFields(service, args'[c], sent.headers)
                     IN  /\ DOMAIN sent = DOMAIN own \cup DOMAIN service.options
                         /\ \A k \in DOMAIN own : sent[k] = own[k]
                         /\ \A k \in DOMAIN service.options \ DOMAIN own :
                                sent[k] = service.options[k]
                         /\ sent.headers.t = "headers" ]_vars

\* A post on the client of https://example.com:9000/api/ constructed with the
\* options {timeout, method: 'TRACE', path, port: 1}: the transport got the
\* method POST, the port 9000, the path /api/get, and the timeout.
C20_Witness ==
    \E c \in CallIds :
        /\ transport[c].created
        /\ service = Constructor("https://example.com:9000/api/",
                                  Obj([timeout |-> 5, method |-> "TRACE",
                                       path |-> "/elsewhere", port |-> 1])).value
        /\ args[c].method = "post"
        /\ transport[c].options.method = "POST"
        /\ transport[c].options.port = 9000
        /\ transport[c].options.path = "/api/get"
        /\ transport[c].options.timeout = 5

=============================================================================
